---- MODULE Spec2Model ----
(***************************************************************************)
(* A model of the network data module of netjs (src/js/netdata.js): the    *)
(* loading of matrices, node data and linkage data, the thresholding of a  *)
(* matrix into edges, the dendrogram tree and its flattening, the          *)
(* extraction of sub-networks and the setters of the network.             *)
(*                                                                         *)
(* JavaScript values are records [t, v]: a number is [t |-> "num"], NaN is *)
(* [t |-> "nan"], undefined is [t |-> "undef"] and a non-numeric string    *)
(* (a label) is [t |-> "str"].  Node indices are 0-based as in the code;   *)
(* arrays are TLA+ sequences, so array element k is sequence element k+1.  *)
(* Threshold percentages are held in units of 1/PDen.                      *)
(***************************************************************************)
EXTENDS Integers, Sequences, FiniteSets, TLC

VARIABLES phase, args, net, sub, op

vars == <<phase, args, net, sub, op>>

(***************************************************************************)
(* Bounds of the model.                                                    *)
(***************************************************************************)
MaxNodes == 3
MaxVal == 3
PDen == 2
MaxDist == 2
MaxK == 3

\* Stands for Number.MAX_VALUE, the largest finite double: larger than the
\* magnitude of every matrix entry of the model.
MAX_VALUE == 1000000

(***************************************************************************)
(* JavaScript values and the operations the code applies to them.          *)
(***************************************************************************)
Num(x) == [t |-> "num", v |-> x]
NaN == [t |-> "nan", v |-> 0]
Undefined == [t |-> "undef", v |-> 0]
Str(k) == [t |-> "str", v |-> k]

\* ToNumber: undefined and a non-numeric string convert to NaN.
ToNumber(x) == IF x.t = "num" THEN x ELSE NaN

\* isNaN(x): true when x does not convert to a number.
IsNaN(x) == ToNumber(x).t # "num"

\* Math.abs
Abs(x) == IF ToNumber(x).t = "num"
          THEN Num(IF x.v < 0 THEN 0 - x.v ELSE x.v)
          ELSE NaN

\* The operator *: NaN when either operand is not a number.
Mul(x, y) == IF ToNumber(x).t = "num" /\ ToNumber(y).t = "num"
             THEN Num(x.v * y.v)
             ELSE NaN

\* The operators < and >: false when either operand is NaN.
Lt(x, y) == ToNumber(x).t = "num" /\ ToNumber(y).t = "num" /\ x.v < y.v
Gt(x, y) == Lt(y, x)

\* Array.prototype.indexOf on a sequence, 0-based, -1 when absent.
RECURSIVE IndexFrom(_, _, _)
IndexFrom(s, x, k) == IF k > Len(s) THEN -1
                      ELSE IF s[k] = x THEN k - 1
                      ELSE IndexFrom(s, x, k + 1)
IndexOf(s, x) == IndexFrom(s, x, 1)

\* Array.prototype.splice(idx, 1): a negative idx counts from the end.
Splice1(s, idx) ==
  LET start == IF idx < 0 THEN (IF Len(s) + idx < 0 THEN 0 ELSE Len(s) + idx)
               ELSE (IF idx > Len(s) THEN Len(s) ELSE idx)
  IN  [k \in 1..(IF start < Len(s) THEN Len(s) - 1 ELSE Len(s)) |->
         IF k <= start THEN s[k] ELSE s[k + 1]]

\* d3.max and d3.min: NaN and undefined entries are skipped; undefined when
\* no entry is left.
RECURSIVE D3MaxFrom(_, _, _)
D3MaxFrom(s, k, best) ==
  IF k > Len(s) THEN best
  ELSE IF ToNumber(s[k]).t # "num" THEN D3MaxFrom(s, k + 1, best)
  ELSE IF best.t # "num" \/ s[k].v > best.v THEN D3MaxFrom(s, k + 1, s[k])
  ELSE D3MaxFrom(s, k + 1, best)
D3Max(s) == D3MaxFrom(s, 1, Undefined)

RECURSIVE D3MinFrom(_, _, _)
D3MinFrom(s, k, best) ==
  IF k > Len(s) THEN best
  ELSE IF ToNumber(s[k]).t # "num" THEN D3MinFrom(s, k + 1, best)
  ELSE IF best.t # "num" \/ s[k].v < best.v THEN D3MinFrom(s, k + 1, s[k])
  ELSE D3MinFrom(s, k + 1, best)
D3Min(s) == D3MinFrom(s, 1, Undefined)

(***************************************************************************)
(* thresholdMatrix: the per-node percentile threshold function.            *)
(***************************************************************************)
\* nodeThress[i] = d3.max(|row i|) * thresPerc, in units of 1/PDen.
NodeThress(matrix, thresPerc) ==
  [i \in 1..Len(matrix) |->
     Mul(D3Max([j \in 1..Len(matrix[i]) |-> Abs(matrix[i][j])]), thresPerc)]

\* |x| in units of 1/PDen, to compare against a node threshold.
Scaled(x) == Mul(Abs(x), Num(PDen))

thresholdMatrix(matrix, targs) ==
  LET thresPerc == IF Len(targs) >= 1 THEN targs[1] ELSE Undefined
      nodeThress == NodeThress(matrix, thresPerc)
  IN  [i \in 1..Len(matrix) |->
        [j \in 1..Len(matrix[i]) |->
           IF Lt(Scaled(matrix[i][j]), nodeThress[i])
              \/ Lt(Scaled(matrix[i][j]), nodeThress[j])
           THEN NaN
           ELSE matrix[i][j]]]

(***************************************************************************)
(* thresholdNetwork: the edges of a network and the weight statistics.     *)
(***************************************************************************)
\* A variant of UpdateStats that compares the weights themselves where the
\* absolute statistics are kept.
UpdateStats_NoAbs(st, weights) ==
  [st EXCEPT
     !.matrixMaxs = [k \in 1..Len(@) |->
        IF k <= Len(weights) /\ Gt(weights[k], @[k]) THEN weights[k] ELSE @[k]],
     !.matrixMins = [k \in 1..Len(@) |->
        IF k <= Len(weights) /\ Lt(weights[k], @[k]) THEN weights[k] ELSE @[k]],
     !.matrixAbsMaxs = [k \in 1..Len(@) |->
        IF k <= Len(weights) /\ Gt(weights[k], @[k]) THEN weights[k] ELSE @[k]],
     !.matrixAbsMins = [k \in 1..Len(@) |->
        IF k <= Len(weights) /\ Lt(weights[k], @[k]) THEN weights[k] ELSE @[k]]]

\* One pass of the weight loop over the four statistics arrays.
UpdateStats(st, weights) ==
  [st EXCEPT
     !.matrixMaxs = [k \in 1..Len(@) |->
        IF k <= Len(weights) /\ Gt(weights[k], @[k]) THEN weights[k] ELSE @[k]],
     !.matrixMins = [k \in 1..Len(@) |->
        IF k <= Len(weights) /\ Lt(weights[k], @[k]) THEN weights[k] ELSE @[k]],
     !.matrixAbsMaxs = [k \in 1..Len(@) |->
        IF k <= Len(weights) /\ Gt(Abs(weights[k]), @[k])
        THEN Abs(weights[k]) ELSE @[k]],
     !.matrixAbsMins = [k \in 1..Len(@) |->
        IF k <= Len(weights) /\ Lt(Abs(weights[k]), @[k])
        THEN Abs(weights[k]) ELSE @[k]]]

\* The body of the double loop for the pair (i, j), 0-based.
AddEdge(st, matrices, i, j) ==
  LET edge == [i |-> i, j |-> j,
               weights |-> [k \in 1..Len(matrices) |-> matrices[k][i + 1][j + 1]]]
      st1 == [st EXCEPT
                !.edges = Append(@, edge),
                !.nodes[i + 1].neighbours = Append(@, j),
                !.nodes[j + 1].neighbours = Append(@, i),
                !.nodes[i + 1].edges = Append(@, <<i, j>>),
                !.nodes[j + 1].edges = Append(@, <<i, j>>)]
  IN  UpdateStats(st1, edge.weights)

\* A variant of FirstJ that starts the inner loop at j = i.
FirstJ_FromI(i) == i

\* First value of the inner loop variable: j = i + 1.
FirstJ(i) == i + 1

\* The double loop over i and j, from the pair (i, j) on.
RECURSIVE ScanPairs(_, _, _, _, _)
ScanPairs(st, matrices, tm, i, j) ==
  LET numNodes == Len(st.nodes)
  IN  IF i >= numNodes THEN st
      ELSE IF j >= numNodes THEN ScanPairs(st, matrices, tm, i + 1, FirstJ(i + 1))
      ELSE IF IsNaN(tm[i + 1][j + 1]) THEN ScanPairs(st, matrices, tm, i, j + 1)
      ELSE ScanPairs(AddEdge(st, matrices, i, j), matrices, tm, i, j + 1)

\* A variant of ThresholdSource that always takes the first matrix.
ThresholdSource_First(n) == n.matrices[1]

\* The matrix the edges are defined by.
ThresholdSource(n) == n.matrices[n.thresholdIdx + 1]

\* A variant of thresholdNetwork that keeps the nodes' neighbour and edge
\* lists of the earlier pass.
thresholdNetwork_KeepLists(n) ==
  LET tm == thresholdMatrix(ThresholdSource(n), n.thresholdValues)
      cleared == [n EXCEPT
        !.edges = <<>>,
        !.matrixMins = [k \in 1..Len(n.matrices) |-> Num(MAX_VALUE)],
        !.matrixMaxs = [k \in 1..Len(n.matrices) |-> Num(0 - MAX_VALUE)],
        !.matrixAbsMins = [k \in 1..Len(n.matrices) |-> Num(MAX_VALUE)],
        !.matrixAbsMaxs = [k \in 1..Len(n.matrices) |-> Num(0 - MAX_VALUE)]]
  IN  ScanPairs(cleared, n.matrices, tm, 0, FirstJ(0))

thresholdNetwork(n) ==
  LET tm == thresholdMatrix(ThresholdSource(n), n.thresholdValues)
      cleared == [n EXCEPT
        !.edges = <<>>,
        !.matrixMins = [k \in 1..Len(n.matrices) |-> Num(MAX_VALUE)],
        !.matrixMaxs = [k \in 1..Len(n.matrices) |-> Num(0 - MAX_VALUE)],
        !.matrixAbsMins = [k \in 1..Len(n.matrices) |-> Num(MAX_VALUE)],
        !.matrixAbsMaxs = [k \in 1..Len(n.matrices) |-> Num(0 - MAX_VALUE)],
        !.nodes = [i \in 1..Len(n.nodes) |->
                     [n.nodes[i] EXCEPT !.edges = <<>>, !.neighbours = <<>>]]]
  IN  ScanPairs(cleared, n.matrices, tm, 0, FirstJ(0))

(***************************************************************************)
(* The dendrogram tree.  A reference is an integer: -1 is undefined, a     *)
(* value below the number of nodes is the node of that index, and          *)
(* numNodes + r is the tree node made from linkage row r, held at          *)
(* position r + 1 of n.tree (the tree node objects); n.treeNodes is the    *)
(* network's list of the tree nodes that have not been spliced out.        *)
(***************************************************************************)
NoRef == -1

IsLeafRef(n, ref) == ref >= 0 /\ ref < Len(n.nodes)
TreePos(n, ref) == ref - Len(n.nodes) + 1
TreeOf(n, ref) == n.tree[TreePos(n, ref)]
ParentOf(n, ref) == IF IsLeafRef(n, ref) THEN n.nodes[ref + 1].parent
                    ELSE TreeOf(n, ref).parent

\* x.parent = p, for a node or a tree node x.
SetParent(n, ref, p) ==
  IF IsLeafRef(n, ref) THEN [n EXCEPT !.nodes[ref + 1].parent = p]
  ELSE [n EXCEPT !.tree[TreePos(n, ref)].parent = p]

\* A variant of Resolve that takes the nearest object there is for an id
\* that names none: the first node, or the last node or row made so far.
Resolve_Clamped(id, i, numNodes) ==
  IF id > numNodes
  THEN (IF id - 1 - numNodes < i THEN numNodes + (id - 1 - numNodes)
        ELSE numNodes + i - 1)
  ELSE (IF id >= 1 THEN id - 1 ELSE 0)

\* The object a linkage id names when row i (0-based) is processed:
\* treeNodes[id - 1 - numNodes] or network.nodes[id - 1], undefined when
\* that array has no such element.
Resolve(id, i, numNodes) ==
  IF id > numNodes
  THEN (IF id - 1 - numNodes < i THEN numNodes + (id - 1 - numNodes) ELSE NoRef)
  ELSE (IF id >= 1 THEN id - 1 ELSE NoRef)

\* A tree node object before its attributes are set.
BlankTreeNode == [index |-> NoRef, children |-> <<>>, distance |-> Undefined,
                  parent |-> NoRef]

\* The loop of makeNetworkDendrogramTree from row i (0-based) on.  Setting
\* the parent attribute of undefined throws.
RECURSIVE BuildRows(_, _, _)
BuildRows(n, linkages, i) ==
  IF i >= Len(linkages) THEN [net |-> n, threw |-> FALSE]
  ELSE
    LET numNodes == Len(n.nodes)
        left == Resolve(linkages[i + 1][1], i, numNodes)
        right == Resolve(linkages[i + 1][2], i, numNodes)
        self == numNodes + i
        n0 == [n EXCEPT !.tree = Append(@, BlankTreeNode)]
        n1 == SetParent(n0, left, self)
        n2 == SetParent(n1, right, self)
        n3 == [n2 EXCEPT !.tree[i + 1] =
                 [@ EXCEPT !.children = <<left, right>>,
                           !.distance = linkages[i + 1][3],
                           !.index = i + numNodes]]
    IN  IF left = NoRef THEN [net |-> n0, threw |-> TRUE]
        ELSE IF right = NoRef THEN [net |-> n1, threw |-> TRUE]
        ELSE BuildRows(n3, linkages, i + 1)

\* network.treeNodes is assigned only when every row was processed.
makeNetworkDendrogramTree(n, linkages) ==
  LET r == BuildRows([n EXCEPT !.tree = <<>>], linkages, 0)
  IN  IF r.threw THEN r
      ELSE [r EXCEPT !.net.treeNodes =
              [k \in 1..Len(linkages) |-> Len(n.nodes) + k - 1]]

\* getClusters: the distinct parents of the nodes, in node order.
RECURSIVE UniqFrom(_, _, _)
UniqFrom(s, k, acc) ==
  IF k > Len(s) THEN acc
  ELSE IF IndexOf(acc, s[k]) > -1 THEN UniqFrom(s, k + 1, acc)
  ELSE UniqFrom(s, k + 1, Append(acc, s[k]))

getClusters(n) == UniqFrom([i \in 1..Len(n.nodes) |-> n.nodes[i].parent], 1, <<>>)

\* A variant of Reparent that sets the parent of each child and does not
\* push the child to the children of the parent.
RECURSIVE Reparent_NoPush(_, _, _, _)
Reparent_NoPush(n, children, k, parent) ==
  IF k > Len(children) THEN n
  ELSE Reparent_NoPush(SetParent(n, children[k], parent), children, k + 1, parent)

\* children.forEach: each child gets the parent and is pushed to its children.
RECURSIVE Reparent(_, _, _, _)
Reparent(n, children, k, parent) ==
  IF k > Len(children) THEN n
  ELSE LET n1 == SetParent(n, children[k], parent)
           n2 == [n1 EXCEPT !.tree[TreePos(n, parent)].children =
                    Append(@, children[k])]
       IN  Reparent(n2, children, k + 1, parent)

\* The cluster picked by one pass of the loop: the first one with the
\* minimum distance (undefined when indexOf finds none).
PickCluster(n, clusters) ==
  LET distances == [k \in 1..Len(clusters) |-> TreeOf(n, clusters[k]).distance]
      minIdx == IndexOf(distances, D3Min(distances))
  IN  IF minIdx < 0 THEN NoRef ELSE clusters[minIdx + 1]

\* Squeezes the cluster clust out of the tree.
SpliceOut(n, clust) ==
  LET parent == TreeOf(n, clust).parent
      children == TreeOf(n, clust).children
      clustChildIdx == IndexOf(TreeOf(n, parent).children, clust)
      clustTreeIdx == IndexOf(n.treeNodes, clust)
      n1 == [n EXCEPT !.tree[TreePos(n, parent)].children = Splice1(@, clustChildIdx),
                      !.treeNodes = Splice1(@, clustTreeIdx)]
  IN  Reparent(n1, children, 1, parent)

\* A variant of MoreClusters with the comparison reversed.
MoreClusters_Reversed(clusters, maxClusters) == Len(clusters) < maxClusters

\* The loop test of flattenDendrogramTree.
MoreClusters(clusters, maxClusters) == Len(clusters) > maxClusters

\* flattenDendrogramTree.  Reading an attribute of undefined throws: the
\* distance of an undefined cluster, the parent of an undefined pick, the
\* children of an undefined parent.
RECURSIVE flattenDendrogramTree(_, _)
flattenDendrogramTree(n, maxClusters) ==
  LET clusters == getClusters(n)
  IN  IF ~MoreClusters(clusters, maxClusters) THEN [net |-> n, threw |-> FALSE]
      ELSE IF \E k \in 1..Len(clusters) : clusters[k] = NoRef
           THEN [net |-> n, threw |-> TRUE]
      ELSE LET clust == PickCluster(n, clusters)
           IN  IF clust = NoRef THEN [net |-> n, threw |-> TRUE]
               ELSE IF TreeOf(n, clust).parent = NoRef
                    THEN [net |-> n, threw |-> TRUE]
               ELSE flattenDendrogramTree(SpliceOut(n, clust), maxClusters)

setNumClusters(n, numClusts) ==
  IF n.linkage.isNull THEN [net |-> n, threw |-> FALSE]
  ELSE LET b == makeNetworkDendrogramTree(n, n.linkage.rows)
           f == flattenDendrogramTree(b.net, numClusts)
       IN  IF b.threw THEN b
           ELSE IF f.threw THEN f
           ELSE [net |-> [f.net EXCEPT !.numClusters = numClusts],
                 threw |-> FALSE]

(***************************************************************************)
(* createNetwork, the setters and extractSubNetwork.                       *)
(***************************************************************************)
NoLinkage == [isNull |-> TRUE, rows |-> <<>>]
Linkage(rows) == [isNull |-> FALSE, rows |-> rows]

\* The scale information createNetwork attaches: all indices 0.
InitScaleInfo == [edgeWidthIdx |-> 0, edgeColourIdx |-> 0, nodeColourIdx |-> 0]

\* The place of a network object that does not exist.
NoNet ==
  [live |-> FALSE, nodes |-> <<>>, nodeData |-> <<>>, nodeDataLabels |-> <<>>,
   matrices |-> <<>>, matrixLabels |-> <<>>, linkage |-> NoLinkage,
   thresholdFunc |-> "none", thresholdValues |-> <<>>,
   thresholdValueLabels |-> <<>>, thresholdIdx |-> 0, numClusters |-> 0,
   edges |-> <<>>, matrixMins |-> <<>>, matrixMaxs |-> <<>>,
   matrixAbsMins |-> <<>>, matrixAbsMaxs |-> <<>>, tree |-> <<>>,
   treeNodes |-> <<>>, hasScaleInfo |-> FALSE, scaleInfo |-> InitScaleInfo,
   nodeColourIdx |-> Undefined]

\* The node createNetwork makes for index i: the name is the 1-based index
\* as a string.
NewNode(i, nodeData) ==
  [index |-> i, name |-> ToString(i + 1),
   nodeData |-> [d \in 1..Len(nodeData) |->
                   IF i + 1 <= Len(nodeData[d]) THEN nodeData[d][i + 1]
                   ELSE Undefined],
   neighbours |-> <<>>, edges |-> <<>>, parent |-> NoRef, fullNetIndex |-> NoRef]

\* createNetwork, with its parameters in the order of its declaration.  The
\* scale information is attached only when setNumClusters has returned.
createNetwork(matrices, matrixLabels, nodeData, nodeDataLabels, linkage, thresholdFunc, thresholdValues, thresholdValueLabels, thresholdIdx, numClusters) ==
  LET numNodes == Len(matrices[1])
      n0 == [NoNet EXCEPT
               !.live = TRUE,
               !.nodes = [i \in 1..numNodes |-> NewNode(i - 1, nodeData)],
               !.nodeData = nodeData,
               !.nodeDataLabels = nodeDataLabels,
               !.matrices = matrices,
               !.matrixLabels = matrixLabels,
               !.linkage = linkage,
               !.thresholdFunc = thresholdFunc,
               !.thresholdValues = thresholdValues,
               !.thresholdValueLabels = thresholdValueLabels,
               !.thresholdIdx = thresholdIdx,
               !.numClusters = numClusters]
      c == setNumClusters(thresholdNetwork(n0), numClusters)
  IN  IF c.threw THEN c
      ELSE [net |-> [c.net EXCEPT !.hasScaleInfo = TRUE,
                                  !.scaleInfo = InitScaleInfo],
            threw |-> FALSE]

\* The range test of the setters: idx < 0 || idx >= count.
OutOfRange(idx, count) == idx < 0 \/ idx >= count

\* A variant of setEdgeWidthIdx that clamps the index into the range.
setEdgeWidthIdx_Clamped(n, idx) ==
  LET clamped == IF idx < 0 THEN 0
                 ELSE IF idx >= Len(n.matrices) THEN Len(n.matrices) - 1
                 ELSE idx
  IN  [net |-> [n EXCEPT !.scaleInfo.edgeWidthIdx = clamped], threw |-> FALSE]

setEdgeWidthIdx(n, idx) ==
  IF OutOfRange(idx, Len(n.matrices)) THEN [net |-> n, threw |-> TRUE]
  ELSE [net |-> [n EXCEPT !.scaleInfo.edgeWidthIdx = idx], threw |-> FALSE]

\* A variant of setEdgeColourIdx that re-thresholds the network and makes
\* the dendrogram anew, as setThresholdValue does.
setEdgeColourIdx_Rerun(n, idx) ==
  IF OutOfRange(idx, Len(n.matrices)) THEN [net |-> n, threw |-> TRUE]
  ELSE LET n1 == [n EXCEPT !.scaleInfo.edgeColourIdx = idx]
       IN  setNumClusters(thresholdNetwork(n1), n1.numClusters)

setEdgeColourIdx(n, idx) ==
  IF OutOfRange(idx, Len(n.matrices)) THEN [net |-> n, threw |-> TRUE]
  ELSE [net |-> [n EXCEPT !.scaleInfo.edgeColourIdx = idx], threw |-> FALSE]

\* The index is stored on the network, not on its scale information.
setNodeColourIdx(n, idx) ==
  IF OutOfRange(idx, Len(n.nodeDataLabels)) THEN [net |-> n, threw |-> TRUE]
  ELSE [net |-> [n EXCEPT !.nodeColourIdx = Num(idx)], threw |-> FALSE]

\* The node data index the nodeColour accessor of the scale information
\* reads: the attribute of the network.
nodeColourRead(n) == n.nodeColourIdx

setThresholdValue(n, idx, value) ==
  IF OutOfRange(idx, Len(n.thresholdValues)) THEN [net |-> n, threw |-> TRUE]
  ELSE LET n1 == [n EXCEPT !.thresholdValues[idx + 1] = value]
       IN  setNumClusters(thresholdNetwork(n1), n1.numClusters)

\* The first threshold value, undefined when there is none.
FirstThresholdValue(n) ==
  IF Len(n.thresholdValues) >= 1 THEN n.thresholdValues[1] ELSE Undefined

\* A variant of setThresholdMatrix that stores the index and does not
\* re-threshold.
setThresholdMatrix_NoRethreshold(n, idx) ==
  IF OutOfRange(idx, Len(n.matrices)) THEN [net |-> n, threw |-> TRUE]
  ELSE [net |-> [n EXCEPT !.thresholdIdx = idx], threw |-> FALSE]

setThresholdMatrix(n, idx) ==
  IF OutOfRange(idx, Len(n.matrices)) THEN [net |-> n, threw |-> TRUE]
  ELSE LET n1 == [n EXCEPT !.thresholdIdx = idx]
       IN  setThresholdValue(n1, 0, FirstThresholdValue(n1))

\* Insertion into an ascending sequence: nodeIdxs.sort by a - b.
RECURSIVE InsertSorted(_, _)
InsertSorted(s, x) ==
  IF s = <<>> THEN <<x>>
  ELSE IF x < Head(s) THEN <<x>> \o s
  ELSE <<Head(s)>> \o InsertSorted(Tail(s), x)

\* A variant of SortAsc that leaves the order as it is.
SortAsc_Unsorted(s) == s

RECURSIVE SortAsc(_)
SortAsc(s) == IF s = <<>> THEN <<>> ELSE InsertSorted(SortAsc(Tail(s)), Head(s))

\* The root and its neighbours, ascending.
SubNodeIdxs(n, rootIdx) == SortAsc(<<rootIdx>> \o n.nodes[rootIdx + 1].neighbours)

extractSubMatrix(matrix, indices) ==
  [i \in 1..Len(indices) |->
     [j \in 1..Len(indices) |-> matrix[indices[i] + 1][indices[j] + 1]]]

\* The single tree node of a sub-network.
SubRoot(numNodes) ==
  [index |-> numNodes, children |-> [k \in 1..numNodes |-> k - 1],
   distance |-> Undefined, parent |-> NoRef]

\* extractSubNetwork.  The call of createNetwork passes the threshold value
\* labels where the values are declared and the values where the labels are.
extractSubNetwork(n, rootIdx) ==
  LET nodeIdxs == SubNodeIdxs(n, rootIdx)
      subMatrices == [k \in 1..Len(n.matrices) |->
                        extractSubMatrix(n.matrices[k], nodeIdxs)]
      subNodeData == [d \in 1..Len(n.nodeData) |->
                        [k \in 1..Len(nodeIdxs) |-> n.nodeData[d][nodeIdxs[k] + 1]]]
      c == createNetwork(subMatrices, n.matrixLabels, subNodeData,
                         n.nodeDataLabels, NoLinkage, n.thresholdFunc,
                         n.thresholdValueLabels, n.thresholdValues,
                         n.thresholdIdx, 1)
      s == c.net
  IN  [s EXCEPT
         !.nodes = [k \in 1..Len(s.nodes) |->
                      [s.nodes[k] EXCEPT
                         !.name = n.nodes[nodeIdxs[k] + 1].name,
                         !.fullNetIndex = n.nodes[nodeIdxs[k] + 1].index,
                         !.parent = Len(s.nodes)]],
         !.tree = <<SubRoot(Len(s.nodes))>>,
         !.treeNodes = <<Len(s.nodes)>>]

(***************************************************************************)
(* The inputs of a load.                                                   *)
(***************************************************************************)
NoArgs == [matrices |-> <<>>, matrixLabels |-> <<>>, nodeData |-> <<>>,
           nodeDataLabels |-> <<>>, linkage |-> NoLinkage, thresVals |-> <<>>,
           thresLabels |-> <<>>]

NodeCounts == 2..MaxNodes

\* The values of a matrix entry: NaN, 1..MaxVal - 1 and -MaxVal.
EntryVals == {NaN} \cup {Num(v) : v \in 1..(MaxVal - 1)} \cup {Num(0 - MaxVal)}

Pairs(N) == {p \in (0..(N - 1)) \X (0..(N - 1)) : p[1] < p[2]}

SymMatrix(N, f) ==
  [i \in 1..N |-> [j \in 1..N |->
     IF i = j THEN Num(0)
     ELSE IF i < j THEN f[<<i - 1, j - 1>>] ELSE f[<<j - 1, i - 1>>]]]

\* Every symmetric N x N matrix over EntryVals with a zero diagonal.
SymMatrices(N) == {SymMatrix(N, f) : f \in [Pairs(N) -> EntryVals]}

\* A second matrix, not symmetric: NaN between the first two nodes, i*j
\* above the diagonal and -(i*j) below it (i, j 1-based).
SecondMatrix(N) ==
  [i \in 1..N |-> [j \in 1..N |->
     IF i = j THEN Num(0)
     ELSE IF i + j = 3 THEN NaN
     ELSE IF i < j THEN Num(i * j) ELSE Num(0 - (i * j))]]

\* A full symmetric matrix: entry (i, j) is i + j (1-based).
FullMatrix(N) ==
  [i \in 1..N |-> [j \in 1..N |-> IF i = j THEN Num(0) ELSE Num(i + j)]]

Labels(count) == [k \in 1..count |-> Str(k)]

\* One node data array: the parity of the node index.
NodeData(N) == <<[i \in 1..N |-> Num(i % 2)]>>

\* The initial threshold values: none, or the one percentage 100%.
ThresVals == {<<>>, <<Num(PDen)>>}

\* The linkage tables of 1..MaxNodes - 1 rows in which every id names a
\* node or an earlier row, with distances in 1..MaxDist.
LinkageRows(N, r) == {<<l, rr, Num(d)>> : l \in 1..(N + r - 1),
                                          rr \in 1..(N + r - 1), d \in 1..MaxDist}

RECURSIVE TablesOf(_, _)
TablesOf(N, R) ==
  IF R = 0 THEN {<<>>}
  ELSE {Append(t, row) : t \in TablesOf(N, R - 1), row \in LinkageRows(N, R)}

LinkageTables(N) == UNION {TablesOf(N, R) : R \in 1..(MaxNodes - 1)}

\* The documented example: [[1,2,0.1],[3,4,0.2]] over 4 nodes, distances in
\* units of 0.1.
ExampleLinkage == Linkage(<<<<1, 2, Num(1)>>, <<3, 4, Num(2)>>>>)

LoadArgs(matrices, linkage, thresVals) ==
  [matrices |-> matrices, matrixLabels |-> Labels(Len(matrices)),
   nodeData |-> NodeData(Len(matrices[1])), nodeDataLabels |-> Labels(1),
   linkage |-> linkage, thresVals |-> thresVals,
   thresLabels |-> Labels(Len(thresVals))]

\* Loads of two matrices, the first any symmetric matrix, without linkage
\* data.
NetLoadsOf(N) ==
  {LoadArgs(<<A, SecondMatrix(N)>>, NoLinkage, tv) :
     A \in SymMatrices(N), tv \in ThresVals}

NetLoads == UNION {NetLoadsOf(N) : N \in NodeCounts}

\* Loads of one full matrix with any linkage table, and the example.
TreeLoadsOf(N) ==
  {LoadArgs(<<FullMatrix(N)>>, Linkage(t), <<Num(PDen)>>) : t \in LinkageTables(N)}

TreeLoads ==
  UNION {TreeLoadsOf(N) : N \in NodeCounts}
  \cup {LoadArgs(<<FullMatrix(4)>>, ExampleLinkage, <<Num(PDen)>>)}

\* The numbers a matrix entry takes: 1..MaxVal - 1 and -MaxVal.
NumVals == {Num(v) : v \in 1..(MaxVal - 1)} \cup {Num(0 - MaxVal)}

OffDiagonal(N) == {p \in (0..(N - 1)) \X (0..(N - 1)) : p[1] # p[2]}

\* Every N x N matrix of numbers with a zero diagonal, symmetric or not.
NumMatrix(N, f) ==
  [i \in 1..N |-> [j \in 1..N |-> IF i = j THEN Num(0) ELSE f[<<i - 1, j - 1>>]]]

NumMatrices(N) == {NumMatrix(N, f) : f \in [OffDiagonal(N) -> NumVals]}

\* Loads of one matrix of numbers with one threshold percentage.
ThresLoadsOf(N) ==
  {LoadArgs(<<A>>, NoLinkage, <<Num(p)>>) : A \in NumMatrices(N), p \in 0..PDen}

ThresLoads == UNION {ThresLoadsOf(N) : N \in NodeCounts}

\* The shapes a parsed text file can have instead of an N x N matrix: a row
\* missing or added, one row a value short or long.
ShapeVariants(m) ==
  {m, SubSeq(m, 1, Len(m) - 1), Append(m, m[1])}
  \cup {[m EXCEPT ![i] = SubSeq(@, 1, Len(@) - 1)] : i \in 1..Len(m)}
  \cup {[m EXCEPT ![i] = Append(@, Num(0))] : i \in 1..Len(m)}

\* The node data of a load: one array of length N, one a value short or
\* long, or two arrays the second of which is short.
NodeDataVariants(N) ==
  {NodeData(N), NodeData(N - 1), NodeData(N + 1), NodeData(N) \o NodeData(N - 1),
   NodeData(N) \o NodeData(N)}

\* Loads of two matrices and node data of any of these shapes.
ShapeLoadsOf(N) ==
  {[LoadArgs(ms, NoLinkage, <<Num(PDen)>>) EXCEPT !.nodeData = nd, !.nodeDataLabels = Labels(Len(nd))] :
     ms \in {<<V, SecondMatrix(N)>> : V \in ShapeVariants(FullMatrix(N))}
            \cup {<<FullMatrix(N), V>> : V \in ShapeVariants(SecondMatrix(N))},
     nd \in NodeDataVariants(N)}

\* Linkage tables whose ids may name no node and no earlier row: one row
\* with any ids in 0..N + 1, or the row [1, 2] and a second row with any
\* ids in 0..N + 2.
AnyIdTables(N) ==
  {<<<<l, r, Num(1)>>>> : l \in 0..(N + 1), r \in 0..(N + 1)}
  \cup {<<<<1, 2, Num(1)>>, <<l, r, Num(MaxDist)>>>> : l \in 0..(N + 2), r \in 0..(N + 2)}

\* Loads of two well-shaped matrices with such a table.
LinkLoadsOf(N) ==
  {LoadArgs(<<FullMatrix(N), SecondMatrix(N)>>, Linkage(t), <<Num(PDen)>>) : t \in AnyIdTables(N)}

FileLoads ==
  UNION {ShapeLoadsOf(N) \cup LinkLoadsOf(N) : N \in NodeCounts}
  \cup {LoadArgs(<<FullMatrix(4)>>, ExampleLinkage, <<Num(PDen)>>)}

NoOp == [name |-> "none", idx |-> 0, held |-> Undefined, threw |-> FALSE]
Op(name, idx, threw) == [name |-> name, idx |-> idx, held |-> Undefined, threw |-> threw]

(***************************************************************************)
(* The state machine.  phase is "loading" until onDataLoad has run, then   *)
(* "ready" when the on-load callback got the network and "failed" when     *)
(* onDataLoad threw; net is then the network object as far as it was made. *)
(* sub is the sub-network of the last extractSubNetwork, held until the    *)
(* next call on the network; the calls on it have names that begin with    *)
(* "sub.".  op is the last call: its name, its index                       *)
(* argument, whether it threw and what the network held before the call:   *)
(* for setThresholdValue the value of the indexed threshold parameter      *)
(* (undefined when the index names none), for setNumClusters the value of  *)
(* numClusters.                                                            *)
(***************************************************************************)
InitWith(loads) ==
  /\ phase = "loading"
  /\ args \in loads
  /\ net = NoNet
  /\ sub = NoNet
  /\ op = NoOp

Init == InitWith(NetLoads)
InitTree == InitWith(TreeLoads)

\* The shape checks of onDataLoad.
ShapesAgree(a) ==
  LET numNodes == Len(a.matrices[1])
  IN  /\ \A k \in 1..Len(a.matrices) :
           /\ Len(a.matrices[k]) = numNodes
           /\ \A i \in 1..Len(a.matrices[k]) : Len(a.matrices[k][i]) = numNodes
      /\ \A d \in 1..Len(a.nodeData) : Len(a.nodeData[d]) = numNodes

OnDataLoad ==
  /\ phase = "loading"
  /\ LET c == createNetwork(args.matrices, args.matrixLabels, args.nodeData,
                            args.nodeDataLabels, args.linkage, "thresholdMatrix",
                            args.thresVals, args.thresLabels, 0, 1)
     IN  IF ~ShapesAgree(args)
         THEN /\ phase' = "failed"
              /\ net' = NoNet
              /\ args' = args
              /\ op' = Op("onDataLoad", 0, TRUE)
         ELSE /\ phase' = IF c.threw THEN "failed" ELSE "ready"
              /\ net' = c.net
              /\ args' = NoArgs
              /\ op' = Op("onDataLoad", 0, c.threw)
  /\ sub' = NoNet

\* A call on the network: r is its outcome.
Call(name, idx, r) ==
  /\ net' = r.net
  /\ op' = Op(name, idx, r.threw)
  /\ sub' = NoNet
  /\ UNCHANGED <<phase, args>>

SetEdgeWidthIdx ==
  /\ phase = "ready"
  /\ \E idx \in -1..Len(net.matrices) :
       Call("setEdgeWidthIdx", idx, setEdgeWidthIdx(net, idx))

SetEdgeColourIdx ==
  /\ phase = "ready"
  /\ \E idx \in -1..Len(net.matrices) :
       Call("setEdgeColourIdx", idx, setEdgeColourIdx(net, idx))

SetNodeColourIdx ==
  /\ phase = "ready"
  /\ \E idx \in -1..Len(net.nodeDataLabels) :
       Call("setNodeColourIdx", idx, setNodeColourIdx(net, idx))

SetThresholdMatrix ==
  /\ phase = "ready"
  /\ \E idx \in -1..Len(net.matrices) :
       Call("setThresholdMatrix", idx, setThresholdMatrix(net, idx))

SetThresholdValue ==
  /\ phase = "ready"
  /\ \E idx \in -1..Len(net.thresholdValues), p \in 0..PDen :
       LET r == setThresholdValue(net, idx, Num(p))
       IN  /\ net' = r.net
           /\ op' = [Op("setThresholdValue", idx, r.threw) EXCEPT
                       !.held = IF OutOfRange(idx, Len(net.thresholdValues))
                                THEN Undefined ELSE net.thresholdValues[idx + 1]]
           /\ sub' = NoNet
           /\ UNCHANGED <<phase, args>>

SetNumClusters ==
  /\ phase = "ready"
  /\ \E k \in 0..MaxK :
       LET r == setNumClusters(net, k)
       IN  /\ net' = r.net
           /\ op' = [Op("setNumClusters", k, r.threw) EXCEPT
                       !.held = Num(net.numClusters)]
           /\ sub' = NoNet
           /\ UNCHANGED <<phase, args>>

ExtractSubNetwork ==
  /\ phase = "ready"
  /\ \E rootIdx \in 0..(Len(net.nodes) - 1) :
       /\ sub' = extractSubNetwork(net, rootIdx)
       /\ op' = Op("extractSubNetwork", rootIdx, FALSE)
  /\ UNCHANGED <<phase, args, net>>

\* The network n after a call on its sub-network s.  The array s holds as
\* thresholdValues is the array n holds as thresholdValueLabels (the one
\* extractSubNetwork passed to createNetwork), so n sees what the call
\* wrote to it.
SharedWith(n, s) == [n EXCEPT !.thresholdValueLabels = s.thresholdValues]

\* A call on the sub-network: r is its outcome.
SubCall(name, idx, r) ==
  /\ sub' = r.net
  /\ net' = SharedWith(net, r.net)
  /\ op' = Op(name, idx, r.threw)
  /\ UNCHANGED <<phase, args>>

SubSetEdgeWidthIdx ==
  /\ phase = "ready" /\ sub.live
  /\ \E idx \in -1..Len(sub.matrices) :
       SubCall("sub.setEdgeWidthIdx", idx, setEdgeWidthIdx(sub, idx))

SubSetEdgeColourIdx ==
  /\ phase = "ready" /\ sub.live
  /\ \E idx \in -1..Len(sub.matrices) :
       SubCall("sub.setEdgeColourIdx", idx, setEdgeColourIdx(sub, idx))

SubSetNodeColourIdx ==
  /\ phase = "ready" /\ sub.live
  /\ \E idx \in -1..Len(sub.nodeDataLabels) :
       SubCall("sub.setNodeColourIdx", idx, setNodeColourIdx(sub, idx))

SubSetThresholdMatrix ==
  /\ phase = "ready" /\ sub.live
  /\ \E idx \in -1..Len(sub.matrices) :
       SubCall("sub.setThresholdMatrix", idx, setThresholdMatrix(sub, idx))

SubSetThresholdValue ==
  /\ phase = "ready" /\ sub.live
  /\ \E idx \in -1..Len(sub.thresholdValues), p \in 0..PDen :
       SubCall("sub.setThresholdValue", idx, setThresholdValue(sub, idx, Num(p)))

SubSetNumClusters ==
  /\ phase = "ready" /\ sub.live
  /\ \E k \in 0..MaxK :
       SubCall("sub.setNumClusters", k, setNumClusters(sub, k))

Next ==
  \/ OnDataLoad
  \/ SetEdgeWidthIdx
  \/ SetEdgeColourIdx
  \/ SetNodeColourIdx
  \/ SetThresholdMatrix
  \/ SetThresholdValue
  \/ SetNumClusters
  \/ ExtractSubNetwork

Spec == Init /\ [][Next]_vars
SpecTree == InitTree /\ [][Next]_vars

\* Loading a matrix of numbers and setting its threshold percentage: the
\* calls that apply thresholdMatrix.
InitThres == InitWith(ThresLoads)
NextThres == OnDataLoad \/ SetThresholdValue
SpecThres == InitThres /\ [][NextThres]_vars

\* A network of two matrices, its sub-networks and the calls on them.
SubLoads ==
  {LoadArgs(<<FullMatrix(N), SecondMatrix(N)>>, NoLinkage, tv) :
     N \in NodeCounts, tv \in ThresVals}

InitSub == InitWith(SubLoads)

NextSub ==
  \/ OnDataLoad
  \/ SetThresholdValue
  \/ ExtractSubNetwork
  \/ SubSetEdgeWidthIdx
  \/ SubSetEdgeColourIdx
  \/ SubSetNodeColourIdx
  \/ SubSetThresholdMatrix
  \/ SubSetThresholdValue
  \/ SubSetNumClusters

SpecSub == InitSub /\ [][NextSub]_vars

\* Loads of files of any shape and of linkage tables with any ids.
InitLoad == InitWith(FileLoads)
SpecLoad == InitLoad /\ [][Next]_vars

(***************************************************************************)
(* Properties.                                                             *)
(***************************************************************************)
Range(s) == {s[k] : k \in 1..Len(s)}
NodeIdxs(n) == 0..(Len(n.nodes) - 1)

\* The matrix thresholdNetwork builds the edges of n from.
Thresholded(n) == thresholdMatrix(n.matrices[n.thresholdIdx + 1], n.thresholdValues)

\* The endpoint pairs of the edges of n.
EdgePairs(n) == {<<e.i, e.j>> : e \in Range(n.edges)}

\* The last call ran thresholdNetwork on net to its end.
ThresholdRan ==
  /\ phase = "ready"
  /\ op.name \in {"onDataLoad", "setThresholdValue", "setThresholdMatrix"}
  /\ ~op.threw

\* A pair of n has a raw value but is suppressed by the threshold.
SomeSuppressed(n) ==
  \E p \in Pairs(Len(n.nodes)) :
    /\ ~IsNaN(n.matrices[n.thresholdIdx + 1][p[1] + 1][p[2] + 1])
    /\ IsNaN(Thresholded(n)[p[1] + 1][p[2] + 1])

\* C1: in every state of a network reached by construct and the setters,
\* the edges and the four weight statistics are those the graph builder
\* yields for the current thresholdIdx and thresholdValues.
C1_EdgesMatchThresholdState ==
  phase = "ready" =>
    LET r == thresholdNetwork(net)
    IN  /\ net.edges = r.edges
        /\ net.matrixMins = r.matrixMins
        /\ net.matrixMaxs = r.matrixMaxs
        /\ net.matrixAbsMins = r.matrixAbsMins
        /\ net.matrixAbsMaxs = r.matrixAbsMaxs

\* The edges of n are one per pair i < j whose thresholded entry is not
\* NaN, none for the other pairs, none with i = j, each with the raw values
\* of all matrices as weights.
EdgesOfThresholded(n) ==
  /\ \A p \in Pairs(Len(n.nodes)) :
       Cardinality({k \in 1..Len(n.edges) :
                      n.edges[k].i = p[1] /\ n.edges[k].j = p[2]})
         = IF IsNaN(Thresholded(n)[p[1] + 1][p[2] + 1]) THEN 0 ELSE 1
  /\ \A e \in Range(n.edges) :
       /\ <<e.i, e.j>> \in Pairs(Len(n.nodes))
       /\ Len(e.weights) = Len(n.matrices)
       /\ \A k \in 1..Len(n.matrices) : e.weights[k] = n.matrices[k][e.i + 1][e.j + 1]

\* C2: after thresholdNetwork ran there is exactly one edge (i, j) for each
\* pair i < j whose thresholded entry is not NaN and no other edge, and the
\* weights of an edge are the raw entries [i][j] of the matrices, in order.
C2_EdgesOfThresholdedMatrix ==
  /\ ThresholdRan => EdgesOfThresholded(net)
  /\ op.name = "extractSubNetwork" => EdgesOfThresholded(sub)

C2_Witness ==
  /\ ThresholdRan
  /\ op.name = "setThresholdValue"
  /\ net.thresholdIdx = 1
  /\ SomeSuppressed(net)
  /\ Len(net.edges) >= 1

InSeq(x, s) == \E k \in 1..Len(s) : s[k] = x

\* The number of edges of n with endpoint i.
Degree(n, i) == Cardinality({k \in 1..Len(n.edges) : n.edges[k].i = i \/ n.edges[k].j = i})

\* The neighbour lists of n are symmetric and agree with the edges of n
\* and with the nodes' edge lists, without entries beyond the edges.
NeighboursAgree(n) ==
  /\ \A i \in NodeIdxs(n), j \in NodeIdxs(n) :
       i # j =>
         LET lo == IF i < j THEN i ELSE j
             hi == IF i < j THEN j ELSE i
         IN  /\ InSeq(i, n.nodes[j + 1].neighbours) <=> InSeq(j, n.nodes[i + 1].neighbours)
             /\ InSeq(j, n.nodes[i + 1].neighbours) <=>
                  /\ <<lo, hi>> \in EdgePairs(n)
                  /\ InSeq(<<lo, hi>>, n.nodes[i + 1].edges)
                  /\ InSeq(<<lo, hi>>, n.nodes[j + 1].edges)
  /\ \A i \in NodeIdxs(n) :
       /\ Len(n.nodes[i + 1].neighbours) = Degree(n, i)
       /\ Len(n.nodes[i + 1].edges) = Degree(n, i)
       /\ ~InSeq(i, n.nodes[i + 1].neighbours)

\* C3: in every state of a network, i is a neighbour of j exactly when j is
\* one of i, exactly when an edge of the network joins them and is in both
\* nodes' edge lists; the lists hold nothing of an earlier pass.
C3_NeighboursSymmetric ==
  /\ phase = "ready" => NeighboursAgree(net)
  /\ op.name = "extractSubNetwork" => NeighboursAgree(sub)

\* A re-thresholding that left fewer edges than the unthresholded matrix has
\* and a node with two neighbours.
C3_Witness ==
  /\ ThresholdRan
  /\ op.name = "setThresholdValue"
  /\ SomeSuppressed(net)
  /\ \E i \in NodeIdxs(net) : Len(net.nodes[i + 1].neighbours) = 2

\* The edges of the sub-network s by the indices of the parent network.
SubEdgesInParent(s) ==
  {<<s.nodes[e.i + 1].fullNetIndex, s.nodes[e.j + 1].fullNetIndex>> : e \in Range(s.edges)}

\* The root and the nodes an edge of n joins to it.
RootAndNeighbours(n, rootIdx) ==
  {rootIdx} \cup {i \in NodeIdxs(n) :
                    <<i, rootIdx>> \in EdgePairs(n) \/ <<rootIdx, i>> \in EdgePairs(n)}

\* The edges of n among the root and its neighbours.
InducedEdges(n, rootIdx) ==
  {p \in EdgePairs(n) : p[1] \in RootAndNeighbours(n, rootIdx)
                        /\ p[2] \in RootAndNeighbours(n, rootIdx)}

\* C4: the edges of an extracted sub-network, by parent indices, are exactly
\* the edges of the parent among the root and its neighbours.
C4_SubNetworkIsInduced ==
  op.name = "extractSubNetwork" => SubEdgesInParent(sub) = InducedEdges(net, op.idx)

\* The k-th smallest element of a set of numbers (k from 1).
KthSmallest(S, k) == CHOOSE x \in S : Cardinality({y \in S : y < x}) = k - 1

\* C5: a sub-network has 1 + degree(root) nodes; its node k stands for the
\* k-th smallest index among the root and its neighbours, holds that index
\* as fullNetIndex and has the name of that node of the parent.
C5_SubNetworkNodes ==
  op.name = "extractSubNetwork" =>
    /\ Len(sub.nodes) = 1 + Degree(net, op.idx)
    /\ \A k \in 1..Len(sub.nodes) :
         LET parentIdx == KthSmallest(RootAndNeighbours(net, op.idx), k)
         IN  /\ sub.nodes[k].index = k - 1
             /\ sub.nodes[k].fullNetIndex = parentIdx
             /\ sub.nodes[k].name = net.nodes[parentIdx + 1].name
             /\ sub.nodes[k].name = ToString(parentIdx + 1)

\* A sub-network around a root that has a neighbour of smaller index and
\* one of larger index, leaving some node of the parent out.
C5_Witness ==
  /\ op.name = "extractSubNetwork"
  /\ Len(sub.nodes) < Len(net.nodes)
  /\ Len(sub.nodes) >= 2
  /\ \E k \in 1..Len(sub.nodes) : sub.nodes[k].name # ToString(k)
  /\ \E k \in 1..Len(sub.nodes) : sub.nodes[k].fullNetIndex < op.idx

\* The distinct parents of the nodes of n: its active clusters.
LeafParents(n) == {n.nodes[i].parent : i \in 1..Len(n.nodes)}

\* Every node id 1..numNodes is a left or right id of some row.
EveryLeafAppears(n) ==
  \A id \in 1..Len(n.nodes) :
    \E r \in 1..Len(n.linkage.rows) :
      n.linkage.rows[r][1] = id \/ n.linkage.rows[r][2] = id

\* Every id of a row names a node or an earlier row.
IdsInRange(n) ==
  \A r \in 1..Len(n.linkage.rows), c \in 1..2 :
    n.linkage.rows[r][c] >= 1 /\ n.linkage.rows[r][c] <= Len(n.nodes) + r - 1

\* The node ids under the id of a linkage table.
RECURSIVE LeafIdsUnder(_, _, _)
LeafIdsUnder(rows, numNodes, id) ==
  IF id <= numNodes THEN {id}
  ELSE LeafIdsUnder(rows, numNodes, rows[id - numNodes][1])
       \cup LeafIdsUnder(rows, numNodes, rows[id - numNodes][2])

\* The last row of the table joins all nodes.
JoinsAllLeaves(n) ==
  /\ Len(n.linkage.rows) >= 1
  /\ LeafIdsUnder(n.linkage.rows, Len(n.nodes), Len(n.nodes) + Len(n.linkage.rows))
       = 1..Len(n.nodes)

\* The last call ran setNumClusters with K >= 1 on a network with linkage
\* data: createNetwork calls it with K = 1.
ClusterCallRan ==
  /\ net.live
  /\ ~net.linkage.isNull
  /\ \/ op.name = "onDataLoad"
     \/ op.name = "setNumClusters" /\ op.idx >= 1

ClusterCallK == IF op.name = "onDataLoad" THEN 1 ELSE op.idx

\* C6: for K >= 1 and a linkage table in which every leaf id appears and
\* every id names a leaf or an earlier row, setNumClusters(network, K)
\* completes without error, leaving at most K distinct leaf parents or only
\* leaf parents that have no parent; with K = 1 and a table that joins all
\* leaves, all leaves end with one parent.
C6_SetNumClustersCompletes ==
  (ClusterCallRan /\ EveryLeafAppears(net) /\ IdsInRange(net)) =>
    /\ ~op.threw
    /\ \/ Cardinality(LeafParents(net)) <= ClusterCallK
       \/ \A c \in LeafParents(net) : c # NoRef /\ ParentOf(net, c) = NoRef
    /\ (ClusterCallK = 1 /\ JoinsAllLeaves(net)) => Cardinality(LeafParents(net)) = 1

\* The parent pointers of the nodes of n.
NodeParents(n) == [i \in 1..Len(n.nodes) |-> n.nodes[i].parent]

\* C7: setNumClusters(network, K) with K < 1 on a network with linkage
\* data throws and leaves treeNodes, the nodes' parents and numClusters as
\* they were.
C7_RejectsBeforeChange ==
  [][(/\ phase = "ready"
      /\ ~net.linkage.isNull
      /\ op'.name = "setNumClusters"
      /\ op'.idx < 1)
     => (/\ op'.threw
         /\ net'.treeNodes = net.treeNodes
         /\ NodeParents(net') = NodeParents(net)
         /\ net'.numClusters = net.numClusters)]_vars

\* C8: setNumClusters(network, K2) right after setNumClusters(network, K1),
\* 1 <= K2 < K1, leaves no more distinct leaf parents than the K1 call left.
C8_ClusterCountMonotone ==
  [][(/\ phase = "ready"
      /\ op.name = "setNumClusters"
      /\ op'.name = "setNumClusters"
      /\ 1 <= op'.idx
      /\ op'.idx < op.idx)
     => Cardinality(LeafParents(net')) <= Cardinality(LeafParents(net))]_vars

\* setNumClusters(network, 1) on a network that held numClusters = 2 and
\* whose linkage gives two clusters at K = 2: one cluster is left and a
\* tree node was spliced out.
C8_Witness ==
  /\ phase = "ready"
  /\ op.name = "setNumClusters"
  /\ ~op.threw
  /\ op.idx = 1
  /\ op.held = Num(2)
  /\ Cardinality(LeafParents(setNumClusters(net, 2).net)) = 2
  /\ Cardinality(LeafParents(net)) = 1
  /\ Len(net.treeNodes) < Len(net.linkage.rows)

\* C9: setThresholdValue(network, p, v) with v the value thresholdValues[p]
\* holds leaves the set of edges, by endpoint pairs, as it was.
C9_SameValueSameEdges ==
  [][(/\ phase = "ready"
      /\ op'.name = "setThresholdValue"
      /\ ~op'.threw
      /\ op'.held = net'.thresholdValues[op'.idx + 1])
     => EdgePairs(net') = EdgePairs(net)]_vars

\* A setThresholdValue with the value already held, on a network with an
\* edge and a suppressed pair.
C9_Witness ==
  /\ phase = "ready"
  /\ op.name = "setThresholdValue"
  /\ ~op.threw
  /\ op.held = net.thresholdValues[op.idx + 1]
  /\ net.thresholdIdx = 1
  /\ Len(net.edges) >= 1
  /\ SomeSuppressed(net)

\* The size of the collection the index of a setter names.
IndexedCount(n, name) ==
  IF name \in {"setEdgeWidthIdx", "setEdgeColourIdx", "setThresholdMatrix"}
  THEN Len(n.matrices)
  ELSE IF name = "setNodeColourIdx" THEN Len(n.nodeData)
  ELSE Len(n.thresholdValues)

IndexSetters == {"setEdgeWidthIdx", "setEdgeColourIdx", "setNodeColourIdx",
                 "setThresholdMatrix", "setThresholdValue"}

\* C10: a setter called with idx < 0 or idx >= the size of the collection
\* it indexes throws and leaves every field of the network unchanged.
C10_OutOfRangeRejected ==
  [][(/\ phase = "ready"
      /\ op'.name \in IndexSetters
      /\ (op'.idx < 0 \/ op'.idx >= IndexedCount(net, op'.name)))
     => (op'.threw /\ net' = net)]_vars

\* A setter that threw on an index equal to the size of its collection, on
\* a network whose indices are not the initial ones.
C10_Witness ==
  /\ phase = "ready"
  /\ op.name \in IndexSetters
  /\ op.idx = IndexedCount(net, op.name)
  /\ op.threw
  /\ net.thresholdIdx = 1
  /\ net.scaleInfo.edgeWidthIdx = 1

\* The largest magnitude of row i of m (1-based), for a matrix of numbers.
RowAbsMax(m, i) ==
  CHOOSE x \in {Abs(m[i][k]).v : k \in 1..Len(m[i])} :
    \A k \in 1..Len(m[i]) : Abs(m[i][k]).v <= x

\* Entry (i, j) of m is below the share p / PDen of the row maximum of i, by
\* m[i][j], or of the row maximum of j, by m[j][i].
BelowRowShare(m, p, i, j) ==
  \/ Abs(m[i][j]).v * PDen < RowAbsMax(m, i) * p
  \/ Abs(m[j][i]).v * PDen < RowAbsMax(m, j) * p

\* C11: for a square matrix m of numbers, symmetric or not, and p in [0, 1],
\* thresholdMatrix returns a matrix of the same shape whose entry (i, j) is
\* NaN exactly when |m[i][j]| < rowMax_i * p or |m[j][i]| < rowMax_j * p and
\* is m[i][j] otherwise, so that (i, j) is suppressed exactly when (j, i) is.
C11_ThresholdMatrixBySpec ==
  (phase = "ready" /\ Len(net.thresholdValues) = 1) =>
    LET m == net.matrices[1]
        p == net.thresholdValues[1].v
        t == thresholdMatrix(m, net.thresholdValues)
    IN  /\ Len(t) = Len(m)
        /\ \A i \in 1..Len(m) :
             /\ Len(t[i]) = Len(m[i])
             /\ \A j \in 1..Len(m[i]) :
                  /\ t[i][j] = IF BelowRowShare(m, p, i, j) THEN NaN ELSE m[i][j]
                  /\ IsNaN(t[i][j]) <=> IsNaN(t[j][i])

\* Some matrix, some row of a matrix or some node data array of the load a
\* has a size other than the row count of the first matrix.
ShapeMismatch(a) ==
  LET N == Len(a.matrices[1])
  IN  \/ \E k \in 1..Len(a.matrices) : Len(a.matrices[k]) # N
      \/ \E k \in 1..Len(a.matrices) :
           \E i \in 1..Len(a.matrices[k]) : Len(a.matrices[k][i]) # N
      \/ \E d \in 1..Len(a.nodeData) : Len(a.nodeData[d]) # N

\* The network n has no linkage data or a linkage table in which every
\* node id appears and every id names a node or an earlier row.
LinkageWellFormed(n) ==
  n.linkage.isNull \/ (EveryLeafAppears(n) /\ IdsInRange(n))

\* C12: a load in which a matrix, a row or a node data array has a size
\* other than N, the row count of the first matrix, fails before a network
\* is made and the on-load callback is not called; a load whose shapes agree
\* (with no linkage data or a well-formed table) succeeds with N nodes,
\* node i having index i and name i + 1.
C12_ShapesDecideLoad ==
  [][(phase = "loading" /\ phase' # "loading") =>
       IF ShapeMismatch(args)
       THEN phase' = "failed" /\ ~net'.live
       ELSE LinkageWellFormed(net') =>
              /\ phase' = "ready"
              /\ net'.live
              /\ Len(net'.nodes) = Len(args.matrices[1])
              /\ \A i \in 1..Len(net'.nodes) :
                   /\ net'.nodes[i].index = i - 1
                   /\ net'.nodes[i].name = ToString(i)]_vars

\* The weights the edges of n have for matrix k (1-based).
WeightsOf(n, k) == {e.weights[k] : e \in Range(n.edges)}

\* x is a value of S that no value of S is below (above).
IsLeast(x, S) == x \in S /\ \A y \in S : ~Lt(y, x)
IsGreatest(x, S) == x \in S /\ \A y \in S : ~Gt(y, x)

\* The four statistics of n for matrix k are those of the values W, or the
\* fixed sentinels when W is empty.
StatsAre(n, k, W) ==
  IF W = {}
  THEN /\ n.matrixMins[k] = Num(MAX_VALUE)
       /\ n.matrixAbsMins[k] = Num(MAX_VALUE)
       /\ n.matrixMaxs[k] = Num(0 - MAX_VALUE)
       /\ n.matrixAbsMaxs[k] = Num(0 - MAX_VALUE)
  ELSE /\ IsLeast(n.matrixMins[k], W)
       /\ IsGreatest(n.matrixMaxs[k], W)
       /\ IsLeast(n.matrixAbsMins[k], {Abs(w) : w \in W})
       /\ IsGreatest(n.matrixAbsMaxs[k], {Abs(w) : w \in W})

StatsLengths(n) ==
  /\ Len(n.matrixMins) = Len(n.matrices)
  /\ Len(n.matrixMaxs) = Len(n.matrices)
  /\ Len(n.matrixAbsMins) = Len(n.matrices)
  /\ Len(n.matrixAbsMaxs) = Len(n.matrices)

\* The statistics of n are those of the weights of all its edges.
StatsOfAllEdges(n) ==
  StatsLengths(n) /\ \A k \in 1..Len(n.matrices) : StatsAre(n, k, WeightsOf(n, k))

\* The statistics of n are those of the weights of its edges that are
\* numbers.
StatsOfNumericWeights(n) ==
  /\ StatsLengths(n)
  /\ \A k \in 1..Len(n.matrices) :
       StatsAre(n, k, {w \in WeightsOf(n, k) : ~IsNaN(w)})

\* C13: after every thresholding pass, for each matrix index k, the four
\* statistics are the minimum, maximum, minimum absolute value and maximum
\* absolute value of weights[k] over all edges when there is an edge, and
\* the sentinels (+MAX_VALUE for the minima, -MAX_VALUE for the maxima)
\* when there is none.
C13_StatsOfAllEdges ==
  /\ phase = "ready" => StatsOfAllEdges(net)
  /\ op.name = "extractSubNetwork" => StatsOfAllEdges(sub)

\* C13 as amended: the four statistics for k are those of the weights[k]
\* that are numbers, over all edges; they are the sentinels when there is
\* no edge or when weights[k] is NaN on every edge.
C13_StatsOfNumericWeights ==
  /\ phase = "ready" => StatsOfNumericWeights(net)
  /\ op.name = "extractSubNetwork" => StatsOfNumericWeights(sub)

\* A re-thresholded network with two edges or more, a negative weight and,
\* for the second matrix, a NaN weight on one edge and a number on another.
C13_Witness ==
  /\ ThresholdRan
  /\ op.name = "setThresholdValue"
  /\ Len(net.edges) >= 2
  /\ \E w \in WeightsOf(net, 1) : Lt(w, Num(0))
  /\ \E w \in WeightsOf(net, 2) : IsNaN(w)
  /\ \E w \in WeightsOf(net, 2) : ~IsNaN(w)

\* No edge of n has a NaN weight for matrix k (1-based).
NoNaNWeight(n, k) == \A e \in Range(n.edges) : ~IsNaN(e.weights[k])

\* C15: in every state of a network built from one or more matrices, no
\* edge has a NaN entry anywhere in its weight vector.
C15_NoNaNWeights ==
  /\ phase = "ready" => \A k \in 1..Len(net.matrices) : NoNaNWeight(net, k)
  /\ op.name = "extractSubNetwork" =>
       \A k \in 1..Len(sub.matrices) : NoNaNWeight(sub, k)

\* C15 as amended: no edge has a NaN weight for the matrix its network was
\* thresholded by, which after a completed pass is the matrix at
\* thresholdIdx; the weights for the other matrices are their raw entries
\* and may be NaN.
C15_NoNaNThresholdWeight ==
  /\ phase = "ready" => \E k \in 1..Len(net.matrices) : NoNaNWeight(net, k)
  /\ ThresholdRan => NoNaNWeight(net, net.thresholdIdx + 1)
  /\ op.name = "extractSubNetwork" => NoNaNWeight(sub, sub.thresholdIdx + 1)

\* A network re-thresholded by its second matrix with an edge whose weight
\* for the first matrix is NaN.
C15_Witness ==
  /\ ThresholdRan
  /\ op.name = "setThresholdMatrix"
  /\ net.thresholdIdx = 1
  /\ \E e \in Range(net.edges) : IsNaN(e.weights[1]) /\ ~IsNaN(e.weights[2])

\* Some row of the linkage table of n names an id below 1 or above the ids
\* made before it: row i (from 0) may name 1..N + i.
SomeIdOutOfRange(n) == ~n.linkage.isNull /\ ~IdsInRange(n)

\* No tree node of n has a missing child.
NoMissingChild(n) ==
  \A k \in 1..Len(n.tree) :
    \A c \in 1..Len(n.tree[k].children) : n.tree[k].children[c] # NoRef

\* C14: building the dendrogram from a linkage table in which some row i
\* names an id below 1 or above N + i fails with an error: the load ends
\* failed, no tree node has a missing child and the network gets no list
\* of tree nodes.
C14_BadIdFailsBuild ==
  (net.live /\ SomeIdOutOfRange(net)) =>
    /\ phase = "failed"
    /\ op.name = "onDataLoad"
    /\ op.threw
    /\ makeNetworkDendrogramTree(net, net.linkage.rows).threw
    /\ NoMissingChild(net)
    /\ net.treeNodes = <<>>

\* A load that failed on a second row that names itself, after the first
\* row was made into a tree node.
C14_Witness ==
  /\ phase = "failed"
  /\ net.live
  /\ Len(net.linkage.rows) = 2
  /\ net.linkage.rows[2][2] = Len(net.nodes) + 2
  /\ net.linkage.rows[2][1] = Len(net.nodes) + 1
  /\ Len(net.tree) = 2
  /\ net.tree[1].children = <<0, 1>>

ScaleSetters == {"setEdgeWidthIdx", "setEdgeColourIdx", "setNodeColourIdx"}

\* The parent pointers of the tree node objects of n.
TreeParents(n) == [k \in 1..Len(n.tree) |-> n.tree[k].parent]

\* C16: a successful setEdgeWidthIdx, setEdgeColourIdx or setNodeColourIdx
\* leaves the edges, every node's neighbours and edges lists, the four
\* statistics arrays, thresholdIdx, thresholdValues, treeNodes and every
\* parent pointer as they were.
C16_ScaleSettersKeepGraph ==
  [][(phase = "ready" /\ op'.name \in ScaleSetters /\ ~op'.threw) =>
       /\ net'.edges = net.edges
       /\ Len(net'.nodes) = Len(net.nodes)
       /\ \A i \in 1..Len(net.nodes) :
            /\ net'.nodes[i].neighbours = net.nodes[i].neighbours
            /\ net'.nodes[i].edges = net.nodes[i].edges
       /\ net'.matrixMins = net.matrixMins
       /\ net'.matrixMaxs = net.matrixMaxs
       /\ net'.matrixAbsMins = net.matrixAbsMins
       /\ net'.matrixAbsMaxs = net.matrixAbsMaxs
       /\ net'.thresholdIdx = net.thresholdIdx
       /\ net'.thresholdValues = net.thresholdValues
       /\ net'.treeNodes = net.treeNodes
       /\ NodeParents(net') = NodeParents(net)
       /\ TreeParents(net') = TreeParents(net)]_vars

\* A successful setEdgeColourIdx(network, 1) on a network with an edge,
\* thresholded by its second matrix, a tree node of which was spliced out.
C16_Witness ==
  /\ phase = "ready"
  /\ op.name = "setEdgeColourIdx"
  /\ ~op.threw
  /\ op.idx = 1
  /\ net.scaleInfo.edgeColourIdx = 1
  /\ net.thresholdIdx = 1
  /\ Len(net.edges) >= 1
  /\ ~net.linkage.isNull
  /\ Len(net.treeNodes) < Len(net.linkage.rows)

\* C17: network.scaleInfo holds edgeWidthIdx, edgeColourIdx and
\* nodeColourIdx, all 0 after construction; a successful setEdgeWidthIdx,
\* setEdgeColourIdx or setNodeColourIdx sets the corresponding index of
\* scaleInfo to idx and leaves the other two; the index the node colour
\* accessor reads is always the nodeColourIdx of scaleInfo.
C17_ScaleInfoHoldsIndices ==
  [][phase' = "ready" =>
       /\ nodeColourRead(net') = Num(net'.scaleInfo.nodeColourIdx)
       /\ op'.name = "onDataLoad" => net'.scaleInfo = InitScaleInfo
       /\ (phase = "ready" /\ op'.name = "setEdgeWidthIdx" /\ ~op'.threw) =>
            net'.scaleInfo = [net.scaleInfo EXCEPT !.edgeWidthIdx = op'.idx]
       /\ (phase = "ready" /\ op'.name = "setEdgeColourIdx" /\ ~op'.threw) =>
            net'.scaleInfo = [net.scaleInfo EXCEPT !.edgeColourIdx = op'.idx]
       /\ (phase = "ready" /\ op'.name = "setNodeColourIdx" /\ ~op'.threw) =>
            net'.scaleInfo = [net.scaleInfo EXCEPT !.nodeColourIdx = op'.idx]]_vars

\* Each id is a left or right id of the linkage table of n at most once.
UsedOnce(n) ==
  \A id \in 1..(Len(n.nodes) + Len(n.linkage.rows)) :
    Cardinality({rc \in (1..Len(n.linkage.rows)) \X (1..2) :
                   n.linkage.rows[rc[1]][rc[2]] = id}) <= 1

\* Every listed tree node of n has each of its children pointing back to it
\* as parent, and the parent of every node is a listed tree node.
TreeConsistent(n) ==
  /\ \A k \in 1..Len(n.treeNodes) :
       LET t == TreeOf(n, n.treeNodes[k])
       IN  \A c \in 1..Len(t.children) : ParentOf(n, t.children[c]) = n.treeNodes[k]
  /\ \A i \in 1..Len(n.nodes) : InSeq(n.nodes[i].parent, n.treeNodes)

\* One tree node per row of the table, row i (from 0) with index N + i and
\* the two children its ids name.
BuiltAsTable(n) ==
  /\ Len(n.tree) = Len(n.linkage.rows)
  /\ n.treeNodes = [k \in 1..Len(n.linkage.rows) |-> Len(n.nodes) + k - 1]
  /\ \A r \in 1..Len(n.linkage.rows) :
       /\ n.tree[r].index = Len(n.nodes) + r - 1
       /\ n.tree[r].children = <<n.linkage.rows[r][1] - 1, n.linkage.rows[r][2] - 1>>

\* The nodes under a node or tree node of n.
RECURSIVE LeafRefsUnder(_, _)
LeafRefsUnder(n, ref) ==
  IF IsLeafRef(n, ref) THEN {ref}
  ELSE UNION {LeafRefsUnder(n, TreeOf(n, ref).children[c]) :
                c \in 1..Len(TreeOf(n, ref).children)}

LeavesUnderTree(n) == UNION {LeafRefsUnder(n, n.treeNodes[k]) : k \in 1..Len(n.treeNodes)}

\* The splice of clust that took n to n2 removed one node, clust, from the
\* listed tree nodes and from the children of its parent, gave all its
\* children to that parent, did not add a distinct leaf parent and kept the
\* nodes under the tree.
SpliceStepOk(n, clust, n2) ==
  LET parent == TreeOf(n, clust).parent
      children == TreeOf(n, clust).children
  IN  /\ Len(n2.treeNodes) = Len(n.treeNodes) - 1
      /\ Range(n2.treeNodes) = Range(n.treeNodes) \ {clust}
      /\ ~InSeq(clust, TreeOf(n2, parent).children)
      /\ Len(TreeOf(n2, parent).children)
           = Len(TreeOf(n, parent).children) - 1 + Len(children)
      /\ \A c \in 1..Len(children) :
           /\ ParentOf(n2, children[c]) = parent
           /\ InSeq(children[c], TreeOf(n2, parent).children)
      /\ Cardinality(LeafParents(n2)) <= Cardinality(LeafParents(n))
      /\ LeavesUnderTree(n2) = LeavesUnderTree(n)

\* The tree of n is consistent, and so it is after every splice step the
\* reduction to maxClusters makes from n on.
RECURSIVE TreeStepsOk(_, _)
TreeStepsOk(n, maxClusters) ==
  LET clusters == getClusters(n)
      clust == PickCluster(n, clusters)
      splices == /\ MoreClusters(clusters, maxClusters)
                 /\ \A k \in 1..Len(clusters) : clusters[k] # NoRef
                 /\ clust # NoRef
                 /\ TreeOf(n, clust).parent # NoRef
  IN  /\ TreeConsistent(n)
      /\ splices => /\ SpliceStepOk(n, clust, SpliceOut(n, clust))
                     /\ TreeStepsOk(SpliceOut(n, clust), maxClusters)

\* The tree built from the table of n and every step of its reduction to
\* one cluster are as claimed, and so is the tree n holds.
TreeKept(n) ==
  LET b == makeNetworkDendrogramTree(n, n.linkage.rows)
  IN  ~b.threw => /\ BuiltAsTable(b.net)
                  /\ TreeStepsOk(b.net, 1)
                  /\ Len(n.treeNodes) > 0 => TreeConsistent(n)

\* C18: for a linkage table in which each id is a child at most once, after
\* the dendrogram is built (one tree node per row, row i with index N + i
\* and the two children named) and after every splice step: every listed
\* tree node has its children pointing back to it and every leaf's parent
\* is listed; a splice removes one node from treeNodes and from its
\* parent's children, re-parents its children to that parent, adds no
\* distinct leaf parent and keeps the leaves under the tree.
C18_TreeKeptBySplices ==
  (net.live /\ ~net.linkage.isNull /\ UsedOnce(net)) => TreeKept(net)

\* C18 as amended: the same, for a linkage table in which each id is a
\* child at most once and every node id 1..N is a child.
C18_TreeKeptWhenLeavesCovered ==
  (net.live /\ ~net.linkage.isNull /\ UsedOnce(net) /\ EveryLeafAppears(net))
    => TreeKept(net)

\* A setNumClusters that spliced a tree node out of a two-row table over
\* three nodes in which every id is a child once.
C18_Witness ==
  /\ phase = "ready"
  /\ op.name = "setNumClusters"
  /\ ~op.threw
  /\ UsedOnce(net)
  /\ EveryLeafAppears(net)
  /\ Len(net.nodes) = 3
  /\ Len(net.linkage.rows) = 2
  /\ Len(net.treeNodes) = 1
  /\ TreeOf(net, net.treeNodes[1]).children # <<>>

SubCalls == {"sub.setEdgeWidthIdx", "sub.setEdgeColourIdx", "sub.setNodeColourIdx",
             "sub.setThresholdMatrix", "sub.setThresholdValue", "sub.setNumClusters"}

\* C19: extractSubNetwork and every later mutating call on the sub-network
\* leave the parent network's thresholdValues, thresholdValueLabels,
\* thresholdIdx, matrices, nodes, edges and statistics as they were.
C19_ParentUnchanged ==
  [][(phase = "ready" /\ (op'.name = "extractSubNetwork" \/ op'.name \in SubCalls)) =>
       /\ net'.thresholdValues = net.thresholdValues
       /\ net'.thresholdValueLabels = net.thresholdValueLabels
       /\ net'.thresholdIdx = net.thresholdIdx
       /\ net'.matrices = net.matrices
       /\ net'.nodes = net.nodes
       /\ net'.edges = net.edges
       /\ net'.matrixMins = net.matrixMins
       /\ net'.matrixMaxs = net.matrixMaxs
       /\ net'.matrixAbsMins = net.matrixAbsMins
       /\ net'.matrixAbsMaxs = net.matrixAbsMaxs]_vars

\* C20: the sub-network extractSubNetwork returns has the thresholdFunc,
\* thresholdIdx, thresholdValues and thresholdValueLabels of the parent.
C20_SubNetworkThresholdConfig ==
  op.name = "extractSubNetwork" =>
    /\ sub.thresholdFunc = net.thresholdFunc
    /\ sub.thresholdIdx = net.thresholdIdx
    /\ sub.thresholdValues = net.thresholdValues
    /\ sub.thresholdValueLabels = net.thresholdValueLabels

====
